---------------------------- MODULE Spec2Model ----------------------------
(***************************************************************************)
(* Model of the repair-shop register API (src/api.py): a Flask layer over  *)
(* three store tables, klienci (clients), maszyny (machines) and naprawy   *)
(* (repairs).  Every handler is a short sequence of store calls; requests  *)
(* run in parallel and interleave between store calls, never inside one.   *)
(*                                                                         *)
(* JSON values are strings.  NULL is Python's None / SQL NULL / JSON null, *)
(* ABSENT marks a key that the JSON object does not hold, and the JSON     *)
(* booleans are the literals "true" and "false".                           *)
(***************************************************************************)
EXTENDS Integers, Sequences, FiniteSets, TLC

VARIABLES
    klienci,    \* table klienci: a set of rows
    maszyny,    \* table maszyny: a set of rows
    naprawy,    \* table naprawy: a set of rows
    nast_id,    \* the next value of the serial column naprawy.id
    zrodlo,     \* for each klient_id of a client row the identifying column and
                \* value its creating request looked up before inserting it
                \* (<<NULL, NULL>> for a klient_id without a row)
    req,        \* per worker: the request in flight between two store calls
    odp         \* the response sent last

vars == <<klienci, maszyny, naprawy, nast_id, zrodlo, req, odp>>

-----------------------------------------------------------------------------
(* Bounds of the model *)

\* Number of workers handling requests in parallel.
MaxReq == 2
\* Number of client ids the store can hand out.
MaxKlienci == 3
\* Number of repair ids the store can hand out.
MaxNaprawy == 2

Reqs == 1..MaxReq

-----------------------------------------------------------------------------
(* Values *)

NULL == "NULL"
ABSENT == "ABSENT"
PRAWDA == "true"
FALSZ == "false"

\* Python truthiness of a JSON value: None, "" and False are falsy.
Truthy(v) == v \notin {NULL, ABSENT, "", FALSZ}

\* dict.get(f): the value under key f, None when the key is missing.
Get(d, f) == IF d[f] = ABSENT THEN NULL ELSE d[f]

\* dict.get(f, default)
GetDef(d, f, default) == IF d[f] = ABSENT THEN default ELSE d[f]

\* "f in d"
Ma(d, f) == d[f] # ABSENT

KlientIdNames == <<"K1", "K2", "K3", "K4", "K5", "K6">>
\* The values the store's default can give klienci.klient_id.
KlientIds == {KlientIdNames[i] : i \in 1..MaxKlienci}

-----------------------------------------------------------------------------
(* Request payloads *)

DaneK(kid, nazwa, logo, adres) ==
    [klient_id |-> kid, nazwa |-> nazwa, logo |-> logo, adres |-> adres,
     osoba |-> ABSENT, telefon |-> ABSENT]

\* The JSON bodies sent to POST /klienci.
DaneKlienta ==
    { DaneK("K1", ABSENT, ABSENT, ABSENT),
      DaneK("K2", "Acme", ABSENT, ABSENT),
      DaneK(ABSENT, "Acme", ABSENT, ABSENT),
      DaneK(ABSENT, "Beta", "AC", "A1"),
      DaneK(ABSENT, ABSENT, "AC", "A2"),
      DaneK(ABSENT, ABSENT, ABSENT, "A1") }

DaneM(ns, marka, klasa, opis) ==
    [ns |-> ns, marka |-> marka, klasa |-> klasa, opis |-> opis]

\* The JSON bodies sent to POST /maszyny.
DaneMaszyny ==
    { DaneM("SN-1", "Acme", "Lathe", ABSENT),
      DaneM("SN-1", "Bosch", ABSENT, ABSENT),
      DaneM("SN-2", "Bosch", "Mill", "stara"),
      DaneM(ABSENT, "Acme", "Lathe", ABSENT) }

-----------------------------------------------------------------------------
(* Responses and workers *)

\* A request without a JSON body, and a worker without a request.
BezDanych == [body |-> ABSENT]

Idle == [pc |-> "idle", dane |-> BezDanych, existing |-> NULL]

\* jsonify(tresc), kod: the response to the request op (path parameter id,
\* JSON body or query parameters dane).  existing is the key in the handler's
\* local existing.data when it answers (NULL: the lookup found nothing, or
\* the handler makes none), calls the number of store calls (execute()) the
\* handler made before answering.  nr alternates, so that two equal responses in a
\* row are still two responses.
Odpowiedz(op, id, dane, existing, calls, kod, tresc) ==
    odp' = [nr |-> 1 - odp.nr, op |-> op, id |-> id, dane |-> dane,
            existing |-> existing, calls |-> calls, kod |-> kod, tresc |-> tresc]

\* A step that sends a response.
Ukonczono == odp'.nr # odp.nr

-----------------------------------------------------------------------------
(* POST /klienci *)

\* The column and value the handler identifies the client by:
\* klient_id if sent, else logo, else nazwa.
KluczKlienta(d) ==
    IF Truthy(Get(d, "klient_id")) THEN <<"klient_id", Get(d, "klient_id")>>
    ELSE IF Truthy(Get(d, "logo")) THEN <<"logo", Get(d, "logo")>>
    ELSE IF Truthy(Get(d, "nazwa")) THEN <<"nazwa", Get(d, "nazwa")>>
    ELSE <<NULL, NULL>>

\* select(...).eq(kol, v).execute() on a table: the matching rows.
SelectEq(tab, kol, v) == {w \in tab : w[kol] = v}

insert_data(d) ==
    [nazwa |-> Get(d, "nazwa"), logo |-> Get(d, "logo"),
     adres |-> Get(d, "adres"), osoba |-> Get(d, "osoba"),
     telefon |-> Get(d, "telefon")]

\* existing_klient with a slip: the lookup goes by nazwa whenever one is sent,
\* whatever else identifies the client.
existing_klient_po_nazwie(d) ==
    IF Truthy(Get(d, "nazwa")) THEN SelectEq(klienci, "nazwa", Get(d, "nazwa"))
    ELSE SelectEq(klienci, KluczKlienta(d)[1], KluczKlienta(d)[2])

\* The lookup "existing": the rows select("klient_id").eq(column, value) can
\* return for the request's identifying column.
existing_klient(d) == SelectEq(klienci, KluczKlienta(d)[1], KluczKlienta(d)[2])

\* The handler's first step as an upsert: a client the lookup finds takes the
\* attributes the request carries.
dodaj_lub_pobierz_klienta_szukaj_scala(r, d) ==
    /\ req[r].pc = "idle"
    /\ LET klucz == KluczKlienta(d)
           pasuje == existing_klient(d)
       IN  IF klucz[1] = NULL
           THEN /\ Odpowiedz("POST /klienci", 0, d, NULL, 0, 400,
                     [error |-> "Brak danych do identyfikacji klienta"])
                /\ UNCHANGED <<req, klienci>>
           ELSE IF pasuje # {}
           THEN /\ \E e \in pasuje :
                     /\ Odpowiedz("POST /klienci", 0, d, e.klient_id, 1, 200,
                                  [klient_id |-> e.klient_id])
                     /\ klienci' = (klienci \ {e}) \cup
                          {[f \in DOMAIN e |->
                              IF f # "klient_id" /\ Ma(d, f) THEN d[f] ELSE e[f]]}
                /\ UNCHANGED req
           ELSE IF ~(Truthy(Get(d, "nazwa")) \/ Truthy(Get(d, "logo")))
           THEN /\ Odpowiedz("POST /klienci", 0, d, NULL, 1, 400,
                     [error |-> "Brak wymaganych danych do utworzenia nowego klienta"])
                /\ UNCHANGED <<req, klienci>>
           ELSE /\ req' = [req EXCEPT ![r] =
                            [pc |-> "klient_insert", dane |-> d, existing |-> NULL]]
                /\ UNCHANGED <<odp, klienci>>
    /\ UNCHANGED <<maszyny, naprawy, nast_id, zrodlo>>

\* First store call of the handler: the lookup, and the response when the
\* request ends there.
dodaj_lub_pobierz_klienta_szukaj(r, d) ==
    /\ req[r].pc = "idle"
    /\ LET klucz == KluczKlienta(d)
           pasuje == existing_klient(d)
       IN  IF klucz[1] = NULL
           THEN /\ Odpowiedz("POST /klienci", 0, d, NULL, 0, 400,
                     [error |-> "Brak danych do identyfikacji klienta"])
                /\ UNCHANGED req
           ELSE IF pasuje # {}
           THEN \* limit(1) without an order: any one matching row
                /\ \E e \in pasuje :
                     Odpowiedz("POST /klienci", 0, d, e.klient_id, 1, 200,
                               [klient_id |-> e.klient_id])
                /\ UNCHANGED req
           ELSE IF ~(Truthy(Get(d, "nazwa")) \/ Truthy(Get(d, "logo")))
           THEN /\ Odpowiedz("POST /klienci", 0, d, NULL, 1, 400,
                     [error |-> "Brak wymaganych danych do utworzenia nowego klienta"])
                /\ UNCHANGED req
           ELSE /\ req' = [req EXCEPT ![r] =
                            [pc |-> "klient_insert", dane |-> d, existing |-> NULL]]
                /\ UNCHANGED odp
    /\ UNCHANGED <<klienci, maszyny, naprawy, nast_id, zrodlo>>

\* Second store call: the insert.  insert_data holds no klient_id, so the
\* store's default assigns one that no row has.
dodaj_lub_pobierz_klienta_wstaw(r) ==
    /\ req[r].pc = "klient_insert"
    /\ LET d == req[r].dane
           w == insert_data(d)
       IN  \E kid \in KlientIds \ {k.klient_id : k \in klienci} :
             /\ klienci' = klienci \cup
                  {[klient_id |-> kid, nazwa |-> w.nazwa, logo |-> w.logo,
                    adres |-> w.adres, osoba |-> w.osoba, telefon |-> w.telefon]}
             /\ zrodlo' = [zrodlo EXCEPT ![kid] = KluczKlienta(d)]
             /\ Odpowiedz("POST /klienci", 0, d, NULL, 2, 200, [klient_id |-> kid])
    /\ req' = [req EXCEPT ![r] = Idle]
    /\ UNCHANGED <<maszyny, naprawy, nast_id>>

-----------------------------------------------------------------------------
(* POST /maszyny *)

\* payload with a slip: marka is written only by the insert that creates the
\* row; an update keeps the marka the row has (lookup policy for the brand).
payload_bez_marki(d) ==
    [ns |-> Get(d, "ns"),
     marka |-> IF \E m \in maszyny : m.ns = Get(d, "ns")
               THEN (CHOOSE m \in maszyny : m.ns = Get(d, "ns")).marka
               ELSE Get(d, "marka"),
     klasa |-> Get(d, "klasa"), opis |-> Get(d, "opis")]

payload(d) ==
    [ns |-> Get(d, "ns"), marka |-> Get(d, "marka"),
     klasa |-> Get(d, "klasa"), opis |-> Get(d, "opis")]

\* First store call: the lookup by ns.
dodaj_lub_pobierz_maszyne_szukaj(r, d) ==
    /\ req[r].pc = "idle"
    /\ LET ns == Get(d, "ns")
           existing == SelectEq(maszyny, "ns", ns)
       IN  IF ~Truthy(ns)
           THEN /\ Odpowiedz("POST /maszyny", 0, d, NULL, 0, 400,
                     [error |-> "Brak wymaganego pola 'ns' (numer seryjny)"])
                /\ UNCHANGED req
           ELSE /\ req' = [req EXCEPT ![r] =
                            [pc |-> IF existing # {} THEN "maszyna_update"
                                                     ELSE "maszyna_insert",
                             dane |-> d,
                             existing |-> IF existing # {} THEN ns ELSE NULL]]
                /\ UNCHANGED odp
    /\ UNCHANGED <<klienci, maszyny, naprawy, nast_id, zrodlo>>

\* Second store call when the lookup found the machine:
\* update(payload).eq("ns", ns) writes all four columns of the payload.
dodaj_lub_pobierz_maszyne_aktualizuj(r) ==
    /\ req[r].pc = "maszyna_update"
    /\ LET d == req[r].dane
           p == payload(d)
           trafione == SelectEq(maszyny, "ns", p.ns)
       IN  /\ maszyny' = (maszyny \ trafione) \cup {p : m \in trafione}
           /\ IF trafione # {}
              THEN Odpowiedz("POST /maszyny", 0, d, req[r].existing, 2, 200,
                             [ns |-> req[r].existing])
              ELSE Odpowiedz("POST /maszyny", 0, d, req[r].existing, 2, 500,
                     [error |-> "Brak danych zwrotnych po aktualizacji maszyny"])
    /\ req' = [req EXCEPT ![r] = Idle]
    /\ UNCHANGED <<klienci, naprawy, nast_id, zrodlo>>

\* Second store call when the lookup found nothing: the insert.  maszyny.ns
\* is unique (it is the target of naprawy_maszyna_ns_fkey), so the store
\* raises on a serial that a row holds by now, and the handler's
\* "except Exception" answers 500.
dodaj_lub_pobierz_maszyne_wstaw(r) ==
    /\ req[r].pc = "maszyna_insert"
    /\ LET d == req[r].dane
           p == payload(d)
       IN  IF SelectEq(maszyny, "ns", p.ns) # {}
           THEN /\ Odpowiedz("POST /maszyny", 0, d, NULL, 2, 500,
                     [error |-> "Blad serwera: duplicate key value violates unique constraint"])
                /\ UNCHANGED maszyny
           ELSE /\ maszyny' = maszyny \cup {p}
                /\ Odpowiedz("POST /maszyny", 0, d, NULL, 2, 200, [ns |-> p.ns])
    /\ req' = [req EXCEPT ![r] = Idle]
    /\ UNCHANGED <<klienci, naprawy, nast_id, zrodlo>>

-----------------------------------------------------------------------------
(* Repairs: payloads *)

DaneN(kid, ns, przyjecie, status, zakonczenie, usterka, naprawa, posrednik, rozl) ==
    [klient_id |-> kid, maszyna_ns |-> ns, data_przyjecia |-> przyjecie,
     status |-> status, data_zakonczenia |-> zakonczenie,
     opis_usterki |-> usterka, opis_naprawy |-> naprawa,
     posrednik_id |-> posrednik, rozliczone |-> rozl]

\* The JSON bodies sent to POST /naprawy.
DaneNaprawy ==
    { DaneN("K1", "SN-1", "2024-01-01", "open", ABSENT, ABSENT, ABSENT, ABSENT, ABSENT),
      DaneN("K2", "SN-2", "2024-01-01", "open", ABSENT, "halas", ABSENT, "P1", PRAWDA),
      DaneN("K1", "SN-1", "2024-01-01", "", ABSENT, ABSENT, ABSENT, ABSENT, ABSENT),
      DaneN("K1", ABSENT, "2024-01-01", "open", ABSENT, ABSENT, ABSENT, ABSENT, ABSENT),
      DaneN("K1", "SN-3", "2024-01-01", "open", ABSENT, ABSENT, ABSENT, ABSENT, ABSENT) }

\* The JSON bodies sent to PUT /naprawy/{id}.  data_przyjecia is a key the
\* handler does not know.
DaneAktualizacji ==
    { DaneN(ABSENT, ABSENT, ABSENT, ABSENT, ABSENT, ABSENT, ABSENT, ABSENT, PRAWDA),
      DaneN(ABSENT, ABSENT, "2024-03-03", "done", "2024-02-01", ABSENT, "wymiana", ABSENT, ABSENT),
      DaneN(ABSENT, ABSENT, "2024-03-03", ABSENT, ABSENT, ABSENT, ABSENT, ABSENT, ABSENT),
      DaneN(ABSENT, ABSENT, ABSENT, ABSENT, ABSENT, ABSENT, ABSENT, ABSENT, ABSENT),
      DaneN("K2", "SN-2", ABSENT, ABSENT, ABSENT, ABSENT, ABSENT, "P1", ABSENT),
      DaneN(ABSENT, "SN-3", ABSENT, ABSENT, ABSENT, ABSENT, ABSENT, ABSENT, ABSENT) }

\* The repair ids requests name in the path: those the store can hand out
\* (each names no row before it is handed out and after its row is deleted).
IdsNaprawy == 1..MaxNaprawy

\* The values of the query parameter marka of GET /naprawy.
FiltryMarki == {ABSENT, "acme"}

-----------------------------------------------------------------------------
(* Repairs: the store *)

\* fk_maszyna of a store that does not enforce naprawy_maszyna_ns_fkey.
fk_maszyna_bez_klucza(ns) == TRUE

\* The foreign keys of naprawy: a reference that is not NULL names a row.
fk_klient(kid) == kid = NULL \/ \E k \in klienci : k.klient_id = kid
fk_maszyna(ns) == ns = NULL \/ \E m \in maszyny : m.ns = ns

\* select("*, maszyny!naprawy_maszyna_ns_fkey(ns, klasa, marka)"): the row
\* with its machine embedded as an object, or null when it has none.
ZMaszyna(n) ==
    [f \in DOMAIN n \cup {"maszyny"} |->
        IF f # "maszyny" THEN n[f]
        ELSE IF \E m \in maszyny : m.ns = n.maszyna_ns
             THEN [typ |-> "object",
                   val |-> LET m == CHOOSE m \in maszyny : m.ns = n.maszyna_ns
                           IN  [ns |-> m.ns, klasa |-> m.klasa, marka |-> m.marka]]
             ELSE [typ |-> "null",
                   val |-> [ns |-> ABSENT, klasa |-> ABSENT, marka |-> ABSENT]]]

\* order("id", desc=True): the rows as a sequence, highest id first.
RECURSIVE order_id_desc(_)
order_id_desc(rows) ==
    IF rows = {} THEN <<>>
    ELSE LET n == CHOOSE n \in rows : \A o \in rows : o.id <= n.id
         IN  <<n>> \o order_id_desc(rows \ {n})

-----------------------------------------------------------------------------
(* Repairs: _formatuj_naprawe *)

\* maszyna_dane after lines 63-66: the value under "maszyny" ({} when the key
\* is missing), replaced by its first element when it is a non-empty list.
maszyna_dane(n) ==
    IF n.maszyny.typ = "absent" THEN [typ |-> "object", val |-> [ns |-> ABSENT, klasa |-> ABSENT, marka |-> ABSENT]]
    ELSE IF n.maszyny.typ = "list" /\ n.maszyny.val # <<>>
         THEN [typ |-> "object", val |-> n.maszyny.val[1]]
    ELSE n.maszyny

\* _formatuj_naprawe with a slip: "marka" is read under the key "klasa".
_formatuj_naprawe_marka_z_klasy(n) ==
    LET md == maszyna_dane(n)
    IN  IF md.typ # "object"
        THEN [ok |-> FALSE, val |-> [error |-> "AttributeError"]]
        ELSE [ok |-> TRUE,
              val |-> [id |-> n.id,
                       klient_id |-> n.klient_id,
                       marka |-> Get(md.val, "klasa"),
                       klasa |-> Get(md.val, "klasa"),
                       ns |-> n.maszyna_ns,
                       status |-> n.status,
                       data_przyjecia |-> n.data_przyjecia,
                       data_zakonczenia |-> n.data_zakonczenia,
                       opis_usterki |-> n.opis_usterki,
                       opis_naprawy |-> n.opis_naprawy,
                       rozliczone |-> n.rozliczone]]

\* The flat record of a raw row; maszyna_dane.get raises AttributeError when
\* maszyna_dane is None or an (empty) list.
_formatuj_naprawe(n) ==
    LET md == maszyna_dane(n)
    IN  IF md.typ # "object"
        THEN [ok |-> FALSE, val |-> [error |-> "AttributeError"]]
        ELSE [ok |-> TRUE,
              val |-> [id |-> n.id,
                       klient_id |-> n.klient_id,
                       marka |-> Get(md.val, "marka"),
                       klasa |-> Get(md.val, "klasa"),
                       ns |-> n.maszyna_ns,
                       status |-> n.status,
                       data_przyjecia |-> n.data_przyjecia,
                       data_zakonczenia |-> n.data_zakonczenia,
                       opis_usterki |-> n.opis_usterki,
                       opis_naprawy |-> n.opis_naprawy,
                       rozliczone |-> n.rozliczone]]

-----------------------------------------------------------------------------
(* Repairs: the handlers.  Each makes one store call, so a request is one  *)
(* step and holds no worker between steps; requests in parallel are these  *)
(* steps in any order.                                                     *)

\* GET /naprawy.  The handler reads no query parameter: args is what the
\* caller sent.
get_naprawy(args) ==
    /\ LET naprawy_data == order_id_desc({ZMaszyna(n) : n \in naprawy})
           wynik == [i \in 1..Len(naprawy_data) |-> _formatuj_naprawe(naprawy_data[i])]
       IN  IF \A i \in 1..Len(wynik) : wynik[i].ok
           THEN Odpowiedz("GET /naprawy", 0, args, NULL, 1, 200,
                          [wynik |-> [i \in 1..Len(wynik) |-> wynik[i].val]])
           ELSE Odpowiedz("GET /naprawy", 0, args, NULL, 1, 500,
                          [error |-> "Blad serwera: AttributeError"])
    /\ UNCHANGED <<klienci, maszyny, naprawy, nast_id, zrodlo, req>>

wymagane_pola == {"klient_id", "maszyna_ns", "data_przyjecia", "status"}

\* dane_do_wstawienia with a slip: rozliczone read without its default.
dane_do_wstawienia_bez_domyslnej(dane) ==
    [klient_id |-> dane.klient_id,
     maszyna_ns |-> dane.maszyna_ns,
     data_przyjecia |-> dane.data_przyjecia,
     data_zakonczenia |-> Get(dane, "data_zakonczenia"),
     status |-> dane.status,
     opis_usterki |-> Get(dane, "opis_usterki"),
     opis_naprawy |-> Get(dane, "opis_naprawy"),
     posrednik_id |-> Get(dane, "posrednik_id"),
     rozliczone |-> Get(dane, "rozliczone")]

dane_do_wstawienia(dane) ==
    [klient_id |-> dane.klient_id,
     maszyna_ns |-> dane.maszyna_ns,
     data_przyjecia |-> dane.data_przyjecia,
     data_zakonczenia |-> Get(dane, "data_zakonczenia"),
     status |-> dane.status,
     opis_usterki |-> Get(dane, "opis_usterki"),
     opis_naprawy |-> Get(dane, "opis_naprawy"),
     posrednik_id |-> Get(dane, "posrednik_id"),
     rozliczone |-> GetDef(dane, "rozliczone", FALSZ)]

\* The row the store makes of an insert: the serial id and the columns sent.
Wiersz(id, w) ==
    [f \in DOMAIN w \cup {"id"} |-> IF f = "id" THEN id ELSE w[f]]

\* POST /naprawy
dodaj_naprawe(dane) ==
    /\ IF ~(\A pole \in wymagane_pola : Truthy(Get(dane, pole)))
       THEN /\ Odpowiedz("POST /naprawy", 0, dane, NULL, 0, 400,
                 [error |-> "Brak wymaganych danych: klient_id, maszyna_ns, data_przyjecia, status"])
            /\ UNCHANGED <<naprawy, nast_id>>
       ELSE LET w == dane_do_wstawienia(dane)
            IN  IF ~(fk_klient(w.klient_id) /\ fk_maszyna(w.maszyna_ns))
                THEN \* the store raises, "except Exception" answers
                     /\ Odpowiedz("POST /naprawy", 0, dane, NULL, 1, 500,
                          [error |-> "Blad serwera: violates foreign key constraint"])
                     /\ UNCHANGED <<naprawy, nast_id>>
                ELSE /\ nast_id <= MaxNaprawy
                     /\ naprawy' = naprawy \cup {Wiersz(nast_id, w)}
                     /\ nast_id' = nast_id + 1
                     /\ Odpowiedz("POST /naprawy", 0, dane, NULL, 1, 200,
                                   [sukces |-> PRAWDA, id |-> nast_id])
    /\ UNCHANGED <<klienci, maszyny, zrodlo, req>>

\* delete_naprawa with a slip: the answer does not look at result.data.
delete_naprawa_zawsze_200(naprawa_id) ==
    /\ naprawy' = {n \in naprawy : n.id # naprawa_id}
    /\ Odpowiedz("DELETE /naprawy", naprawa_id, BezDanych, NULL, 1, 200,
                 [message |-> "Usunieto naprawe"])
    /\ UNCHANGED <<klienci, maszyny, nast_id, zrodlo, req>>

\* DELETE /naprawy/{id}
delete_naprawa(naprawa_id) ==
    /\ LET result == {n \in naprawy : n.id = naprawa_id}
       IN  /\ naprawy' = naprawy \ result
           /\ IF result # {}
              THEN Odpowiedz("DELETE /naprawy", naprawa_id, BezDanych, NULL, 1, 200,
                             [message |-> "Usunieto naprawe"])
              ELSE Odpowiedz("DELETE /naprawy", naprawa_id, BezDanych, NULL, 1, 404,
                             [error |-> "Nie znaleziono naprawy"])
    /\ UNCHANGED <<klienci, maszyny, nast_id, zrodlo, req>>

\* pola_napraw with a slip: data_przyjecia is copied too.
pola_napraw_z_data_przyjecia ==
    {"status", "data_zakonczenia", "opis_usterki", "opis_naprawy",
     "posrednik_id", "rozliczone", "klient_id", "maszyna_ns", "data_przyjecia"}

\* The keys update_naprawa copies from the body.
pola_napraw == {"status", "data_zakonczenia", "opis_usterki", "opis_naprawy",
                "posrednik_id", "rozliczone", "klient_id", "maszyna_ns"}

\* pola_do_aktualizacji with a slip: every key of the body is copied.
pola_do_aktualizacji_wszystkie(data) == {f \in DOMAIN data : Ma(data, f)}

pola_do_aktualizacji(data) == {f \in pola_napraw : Ma(data, f)}

\* update(pola).eq("id", id) on a row: the columns named take the values sent.
Zmien(n, pola, data) ==
    [f \in DOMAIN n |-> IF f \in pola THEN data[f] ELSE n[f]]

\* PUT /naprawy/{id}
update_naprawa(naprawa_id, data) ==
    /\ LET pola == pola_do_aktualizacji(data)
           trafione == {n \in naprawy : n.id = naprawa_id}
           nowe == {Zmien(n, pola, data) : n \in trafione}
       IN  IF pola = {}
           THEN /\ Odpowiedz("PUT /naprawy", naprawa_id, data, NULL, 0, 400,
                     [error |-> "Brak danych do aktualizacji"])
                /\ UNCHANGED naprawy
           ELSE IF trafione = {}
           THEN /\ Odpowiedz("PUT /naprawy", naprawa_id, data, NULL, 1, 404,
                     [error |-> "Nie znaleziono naprawy"])
                /\ UNCHANGED naprawy
           ELSE IF \E n \in nowe : ~(fk_klient(n.klient_id) /\ fk_maszyna(n.maszyna_ns))
           THEN /\ Odpowiedz("PUT /naprawy", naprawa_id, data, NULL, 1, 500,
                     [error |-> "Blad serwera: violates foreign key constraint"])
                /\ UNCHANGED naprawy
           ELSE /\ naprawy' = (naprawy \ trafione) \cup nowe
                /\ Odpowiedz("PUT /naprawy", naprawa_id, data, NULL, 1, 200,
                              [message |-> "Zaktualizowano naprawe"])
    /\ UNCHANGED <<klienci, maszyny, nast_id, zrodlo, req>>

\* GET /naprawy/{id}.  single() raises when no row matches; the handler answers
\* 404 when the text of the exception holds "No rows returned from the query"
\* and 500 otherwise, and that text is the store client's, so both can happen.
\* An exception of _formatuj_naprawe is answered 500.
get_naprawa_by_id(naprawa_id) ==
    /\ LET trafione == {ZMaszyna(n) : n \in {o \in naprawy : o.id = naprawa_id}}
       IN  IF trafione = {}
           THEN \E kod \in {404, 500} :
                  Odpowiedz("GET /naprawy/id", naprawa_id, BezDanych, NULL, 1, kod,
                            [error |-> IF kod = 404 THEN "Nie znaleziono naprawy"
                                                    ELSE "Blad serwera"])
           ELSE \E n \in trafione :
                  LET wynik == _formatuj_naprawe(n)
                  IN  IF wynik.ok
                      THEN Odpowiedz("GET /naprawy/id", naprawa_id, BezDanych, NULL,
                                     1, 200, wynik.val)
                      ELSE Odpowiedz("GET /naprawy/id", naprawa_id, BezDanych, NULL,
                                     1, 500, [error |-> "Blad serwera: AttributeError"])
    /\ UNCHANGED <<klienci, maszyny, naprawy, nast_id, zrodlo, req>>

\* The shapes the value under "maszyny" of a raw row can have.
KsztaltyMaszyny == {"object", "list1", "missing", "null", "list0"}

\* A raw row of naprawy with its machine embedded in the shape asked for.
SurowyWiersz(n, m, ksztalt) ==
    [f \in DOMAIN n \cup {"maszyny"} |->
        IF f # "maszyny" THEN n[f]
        ELSE IF ksztalt = "object"
             THEN [typ |-> "object", val |-> [ns |-> m.ns, klasa |-> m.klasa, marka |-> m.marka]]
        ELSE IF ksztalt = "list1"
             THEN [typ |-> "list", val |-> <<[ns |-> m.ns, klasa |-> m.klasa, marka |-> m.marka]>>]
        ELSE IF ksztalt = "list0"
             THEN [typ |-> "list", val |-> <<>>]
        ELSE IF ksztalt = "missing"
             THEN [typ |-> "absent", val |-> [ns |-> ABSENT, klasa |-> ABSENT, marka |-> ABSENT]]
        ELSE [typ |-> "null", val |-> [ns |-> ABSENT, klasa |-> ABSENT, marka |-> ABSENT]]]

\* _formatuj_naprawe called on a raw row: the row n of the store with the
\* machine m embedded in the given shape.  The response slot records the call,
\* 200 with the flat record when it returns and 500 when it raises.
formatuj(n, m, ksztalt) ==
    /\ LET wynik == _formatuj_naprawe(SurowyWiersz(n, m, ksztalt))
       IN  Odpowiedz("_formatuj_naprawe", n.id, [ksztalt |-> ksztalt, ns |-> m.ns],
                     NULL, 0, IF wynik.ok THEN 200 ELSE 500, wynik.val)
    /\ UNCHANGED <<klienci, maszyny, naprawy, nast_id, zrodlo, req>>

\* The JSON bodies sent to PUT /naprawy/{id} by a caller that moves a repair
\* to another client and machine, takes its machine away, or settles it.
DaneAktualizacjiMaszyny ==
    { DaneN("K2", "SN-2", ABSENT, ABSENT, ABSENT, ABSENT, ABSENT, "P1", ABSENT),
      DaneN(ABSENT, NULL, ABSENT, ABSENT, ABSENT, ABSENT, ABSENT, ABSENT, ABSENT),
      DaneN(ABSENT, "SN-3", ABSENT, ABSENT, ABSENT, ABSENT, ABSENT, ABSENT, ABSENT),
      DaneN(ABSENT, ABSENT, ABSENT, ABSENT, ABSENT, ABSENT, ABSENT, ABSENT, PRAWDA) }

-----------------------------------------------------------------------------
(* PUT /klienci/{id} *)

\* The JSON bodies sent to PUT /klienci/{id}; klient_id is the id in the path.
DaneZmianyKlienta ==
    { DaneK(kid, nazwa, ABSENT, adres) :
        kid \in {"K1", "K2"}, nazwa \in {ABSENT, "Gamma"}, adres \in {ABSENT, "A3"} }

\* The only route on /klienci/<klient_id_str> is get_klient_by_id, declared
\* with methods=["GET"]: the router answers any other method 405 and calls
\* no handler.
klienci_id_inna_metoda(metoda, d) ==
    /\ Odpowiedz(metoda, 0, d, NULL, 0, 405, [error |-> "Method Not Allowed"])
    /\ UNCHANGED <<klienci, maszyny, naprawy, nast_id, zrodlo, req>>

-----------------------------------------------------------------------------
(* Specifications *)

\* The response slot before any request was answered.
BrakOdp ==
    [nr |-> 0, op |-> "-", id |-> 0, dane |-> BezDanych, existing |-> NULL,
     calls |-> 0, kod |-> 0, tresc |-> BezDanych]

Init ==
    /\ klienci = {}
    /\ maszyny = {}
    /\ naprawy = {}
    /\ nast_id = 1
    /\ zrodlo = [k \in KlientIds |-> <<NULL, NULL>>]
    /\ req = [r \in Reqs |-> Idle]
    /\ odp = BrakOdp

\* Requests to POST /klienci, running in parallel.
NextKlienci ==
    \E r \in Reqs :
        \/ \E d \in DaneKlienta : dodaj_lub_pobierz_klienta_szukaj(r, d)
        \/ dodaj_lub_pobierz_klienta_wstaw(r)

SpecKlienci == Init /\ [][NextKlienci]_vars

\* Requests to POST /maszyny, running in parallel.
NextMaszyny ==
    \E r \in Reqs :
        \/ \E d \in DaneMaszyny : dodaj_lub_pobierz_maszyne_szukaj(r, d)
        \/ dodaj_lub_pobierz_maszyne_aktualizuj(r)
        \/ dodaj_lub_pobierz_maszyne_wstaw(r)

SpecMaszyny == Init /\ [][NextMaszyny]_vars

\* A store with two clients and two machines, as POST /klienci and
\* POST /maszyny create them (SpecRejestr reaches it).
SkladZKlientamiIMaszynami ==
    /\ klienci = {[klient_id |-> "K1", nazwa |-> "Acme", logo |-> NULL,
                   adres |-> NULL, osoba |-> NULL, telefon |-> NULL],
                  [klient_id |-> "K2", nazwa |-> "Beta", logo |-> "AC",
                   adres |-> "A1", osoba |-> NULL, telefon |-> NULL]}
    /\ maszyny = {[ns |-> "SN-1", marka |-> "Acme", klasa |-> "Lathe", opis |-> NULL],
                  [ns |-> "SN-2", marka |-> "Bosch", klasa |-> "Mill", opis |-> "stara"]}
    /\ zrodlo = [k \in KlientIds |->
                   IF k = "K1" THEN <<"nazwa", "Acme">>
                   ELSE IF k = "K2" THEN <<"logo", "AC">>
                   ELSE <<NULL, NULL>>]

\* The store when the repairs are entered.
InitNaprawy ==
    /\ SkladZKlientamiIMaszynami
    /\ naprawy = {}
    /\ nast_id = 1
    /\ req = [r \in Reqs |-> Idle]
    /\ odp = BrakOdp

\* Requests on the repairs, running in parallel.
NextNaprawy ==
    \/ \E args \in FiltryMarki : get_naprawy([marka |-> args])
    \/ \E d \in DaneNaprawy : dodaj_naprawe(d)
    \/ \E id \in IdsNaprawy : delete_naprawa(id)
    \/ \E id \in IdsNaprawy, d \in DaneAktualizacji : update_naprawa(id, d)

SpecNaprawy == InitNaprawy /\ [][NextNaprawy]_vars

\* Clients and machines entered in parallel, from the empty store.
NextRejestr == NextKlienci \/ NextMaszyny

SpecRejestr == Init /\ [][NextRejestr]_vars

\* Every request of the API, from the empty store.
Next == NextKlienci \/ NextMaszyny \/ NextNaprawy

Spec == Init /\ [][Next]_vars

\* Requests to POST /klienci, one after another: a request starts only when
\* no other is in flight.
Kolejno(r) == \A s \in Reqs \ {r} : req[s].pc = "idle"

NextKlienciSeq ==
    \E r \in Reqs :
        \/ \E d \in DaneKlienta : Kolejno(r) /\ dodaj_lub_pobierz_klienta_szukaj(r, d)
        \/ Kolejno(r) /\ dodaj_lub_pobierz_klienta_wstaw(r)

SpecKlienciSeq == Init /\ [][NextKlienciSeq]_vars

\* The end-to-end scenario: a client named by its id only, a machine and a
\* repair that references both, among requests that name the client the
\* store made.  Requests run one after another, from the empty store.
KlientACME == DaneK("ACME", ABSENT, ABSENT, ABSENT)
MaszynaSN1 == DaneM("SN-1", "Acme", "Lathe", ABSENT)
NaprawaACME ==
    DaneN("ACME", "SN-1", "2024-01-01", "open", ABSENT, ABSENT, ABSENT, ABSENT, ABSENT)

DaneKlientaE2E == {KlientACME, DaneK(ABSENT, "Acme", ABSENT, ABSENT)}
DaneMaszynyE2E == {MaszynaSN1, DaneM("SN-1", "Bosch", ABSENT, ABSENT)}
DaneNaprawyE2E ==
    {NaprawaACME,
     DaneN("K1", "SN-1", "2024-01-01", "open", ABSENT, ABSENT, ABSENT, ABSENT, ABSENT)}

NextE2E ==
    \/ \E r \in Reqs, d \in DaneKlientaE2E :
         Kolejno(r) /\ dodaj_lub_pobierz_klienta_szukaj(r, d)
    \/ \E r \in Reqs : Kolejno(r) /\ dodaj_lub_pobierz_klienta_wstaw(r)
    \/ \E r \in Reqs, d \in DaneMaszynyE2E :
         Kolejno(r) /\ dodaj_lub_pobierz_maszyne_szukaj(r, d)
    \/ \E r \in Reqs : Kolejno(r) /\ dodaj_lub_pobierz_maszyne_aktualizuj(r)
    \/ \E r \in Reqs : Kolejno(r) /\ dodaj_lub_pobierz_maszyne_wstaw(r)
    \/ \E d \in DaneNaprawyE2E :
         (\A r \in Reqs : req[r].pc = "idle") /\ dodaj_naprawe(d)

SpecE2E == Init /\ [][NextE2E]_vars

\* Repairs entered and read back one by one while the machines are
\* re-submitted; no repair is updated or deleted.
DaneMaszynyZmiana ==
    {DaneM("SN-1", "Bosch", ABSENT, ABSENT), DaneM("SN-1", "Acme", "Lathe", ABSENT)}

NextOdczyt ==
    \/ \E d \in DaneNaprawy : dodaj_naprawe(d)
    \/ \E id \in IdsNaprawy : get_naprawa_by_id(id)
    \/ \E r \in Reqs, d \in DaneMaszynyZmiana : dodaj_lub_pobierz_maszyne_szukaj(r, d)
    \/ \E r \in Reqs : dodaj_lub_pobierz_maszyne_aktualizuj(r)

SpecOdczyt == InitNaprawy /\ [][NextOdczyt]_vars

\* Every request on the repairs, with updates that move a repair to another
\* machine or take its machine away, and _formatuj_naprawe on the raw rows
\* of every shape.
NextNaprawyMaszyny ==
    \/ \E args \in FiltryMarki : get_naprawy([marka |-> args])
    \/ \E id \in IdsNaprawy : get_naprawa_by_id(id)
    \/ \E d \in DaneNaprawy : dodaj_naprawe(d)
    \/ \E id \in IdsNaprawy : delete_naprawa(id)
    \/ \E id \in IdsNaprawy, d \in DaneAktualizacjiMaszyny : update_naprawa(id, d)
    \/ \E n \in naprawy, m \in maszyny, ksztalt \in KsztaltyMaszyny : formatuj(n, m, ksztalt)

SpecNaprawyMaszyny == InitNaprawy /\ [][NextNaprawyMaszyny]_vars

\* Repairs entered, updated and deleted while a client and a machine are
\* submitted, the submissions one after another.
DaneKlientaNowe == {DaneK(ABSENT, "Gamma", ABSENT, ABSENT)}
DaneMaszynyNowe == {DaneM("SN-3", "Cat", ABSENT, ABSENT)}
DaneNaprawyOdniesienia ==
    { DaneN("K1", "SN-1", "2024-01-01", "open", ABSENT, ABSENT, ABSENT, ABSENT, ABSENT),
      DaneN("K3", "SN-3", "2024-01-01", "open", ABSENT, ABSENT, ABSENT, ABSENT, ABSENT) }
DaneAktualizacjiOdniesienia ==
    { DaneN(ABSENT, NULL, ABSENT, ABSENT, ABSENT, ABSENT, ABSENT, ABSENT, ABSENT),
      DaneN(ABSENT, "SN-3", ABSENT, ABSENT, ABSENT, ABSENT, ABSENT, ABSENT, ABSENT),
      DaneN("K9", ABSENT, ABSENT, ABSENT, ABSENT, ABSENT, ABSENT, ABSENT, ABSENT) }

NextIntegralnosc ==
    \/ \E d \in DaneNaprawyOdniesienia : dodaj_naprawe(d)
    \/ \E id \in IdsNaprawy : delete_naprawa(id)
    \/ \E id \in IdsNaprawy, d \in DaneAktualizacjiOdniesienia : update_naprawa(id, d)
    \/ \E r \in Reqs, d \in DaneKlientaNowe :
         Kolejno(r) /\ dodaj_lub_pobierz_klienta_szukaj(r, d)
    \/ \E r \in Reqs : Kolejno(r) /\ dodaj_lub_pobierz_klienta_wstaw(r)
    \/ \E r \in Reqs, d \in DaneMaszynyNowe :
         Kolejno(r) /\ dodaj_lub_pobierz_maszyne_szukaj(r, d)
    \/ \E r \in Reqs : Kolejno(r) /\ dodaj_lub_pobierz_maszyne_aktualizuj(r)
    \/ \E r \in Reqs : Kolejno(r) /\ dodaj_lub_pobierz_maszyne_wstaw(r)

SpecIntegralnosc == InitNaprawy /\ [][NextIntegralnosc]_vars

\* Requests to POST /klienci one after another, and requests to
\* PUT /klienci/{id}.
NextKlienciPut ==
    \/ NextKlienciSeq
    \/ \E d \in DaneZmianyKlienta : klienci_id_inna_metoda("PUT /klienci/id", d)

SpecKlienciPut == Init /\ [][NextKlienciPut]_vars


-----------------------------------------------------------------------------
(* Properties of POST /klienci and POST /maszyny *)

\* The client rows whose column named by the request's identifying key holds
\* the request's identifying value.
RowsForKey(d) ==
    IF KluczKlienta(d)[1] = NULL THEN {}
    ELSE {k \in klienci : k[KluczKlienta(d)[1]] = KluczKlienta(d)[2]}

\* The client rows created by a request that identified its client by the
\* same column and value as d does.
RowsCreatedFor(d) ==
    {k \in klienci : KluczKlienta(d)[1] # NULL /\ zrodlo[k.klient_id] = KluczKlienta(d)}

\* C1 as stated: once a POST /klienci has created a client, a later POST
\* /klienci carrying the same natural key is answered 409 and adds no row.
C1_LaterSameKeyIsConflict ==
    [][ (Ukonczono /\ odp'.op = "POST /klienci" /\ RowsCreatedFor(odp'.dane) # {})
          => (odp'.kod = 409 /\ klienci' = klienci) ]_vars

\* C1 amended: a POST /klienci whose lookup (by klient_id if sent, else logo,
\* else nazwa) matches a client row is answered at the lookup, with 200 and
\* the klient_id of a matching row, and adds no client row.
C1_LookupHitReturnsExisting ==
    [][ /\ (Ukonczono /\ odp'.op = "POST /klienci" /\ RowsForKey(odp'.dane) # {}
            /\ req' = req)
          => /\ odp'.kod = 200
             /\ odp'.tresc.klient_id \in {k.klient_id : k \in RowsForKey(odp'.dane)}
             /\ klienci' = klienci
        /\ \A r \in Reqs :
            (req[r].pc = "idle" /\ req'[r].pc = "klient_insert")
              => RowsForKey(req'[r].dane) = {} ]_vars

\* C1 witness: a request with a logo was answered with the id of a row that
\* an earlier request with that logo and another address created.
C1_Witness ==
    /\ odp.op = "POST /klienci" /\ odp.kod = 200 /\ odp.existing # NULL
    /\ \E k \in klienci :
         /\ k.klient_id = odp.tresc.klient_id
         /\ Truthy(k.logo) /\ k.logo = Get(odp.dane, "logo")
         /\ k.adres # Get(odp.dane, "adres")

\* C2: a POST /maszyny whose lookup missed and whose insert the store rejects,
\* because a concurrent request inserted the serial first, is answered 409.
C2_LosingInsertIsConflict ==
    [][ \A r \in Reqs :
          (/\ req[r].pc = "maszyna_insert" /\ req'[r].pc = "idle"
           /\ \E m \in maszyny : m.ns = req[r].dane.ns)
            => odp'.kod = 409 ]_vars

\* C3: never two machine rows with one ns, and never two client rows created
\* for one identifying value.
C3_NoDuplicateMasterRows ==
    /\ \A m1, m2 \in maszyny : m1.ns = m2.ns => m1 = m2
    /\ \A k1, k2 \in klienci :
         zrodlo[k1.klient_id] = zrodlo[k2.klient_id] => k1 = k2

\* C4: with requests one after another, an accepted POST /klienci sent a
\* second time is answered with the same klient_id and adds no client row.
C4_ResubmitIsIdempotent ==
    [][ (/\ Ukonczono /\ odp'.op = "POST /klienci"
         /\ odp.op = "POST /klienci" /\ odp.kod = 200 /\ odp'.dane = odp.dane)
          => (/\ odp'.kod = 200
              /\ odp'.tresc.klient_id = odp.tresc.klient_id
              /\ klienci' = klienci) ]_vars

\* C5: a successful POST /maszyny leaves exactly one row for its ns, holding
\* the marka it sent (NULL when it sent none), and nothing but a successful
\* POST /maszyny for a serial changes the rows of that serial: each serial
\* posted has one row, with the marka of the latest successful POST for it.
C5_UpsertLastWriteWins ==
    [][ /\ (Ukonczono /\ odp'.op = "POST /maszyny" /\ odp'.kod = 200)
          => \E m \in maszyny' :
               /\ m.ns = odp'.dane.ns
               /\ m.marka = Get(odp'.dane, "marka")
               /\ \A m2 \in maszyny' : m2.ns = m.ns => m2 = m
        /\ \A ns \in {m.ns : m \in maszyny \cup maszyny'} :
            {m \in maszyny : m.ns = ns} # {m \in maszyny' : m.ns = ns}
              => (/\ Ukonczono /\ odp'.op = "POST /maszyny" /\ odp'.kod = 200
                  /\ odp'.dane.ns = ns) ]_vars

\* C5 witness: the second POST for SN-1 found the row and replaced its marka.
C5_Witness ==
    /\ odp.op = "POST /maszyny" /\ odp.kod = 200 /\ odp.existing = "SN-1"
    /\ odp.dane.marka = "Bosch"
    /\ \E m \in maszyny : m.ns = "SN-1" /\ m.marka = "Bosch"

-----------------------------------------------------------------------------
(* Properties of the repairs *)

\* The field names PUT /naprawy/{id} recognizes.
Rozpoznane == {"status", "data_zakonczenia", "opis_usterki", "opis_naprawy",
               "posrednik_id", "rozliczone", "klient_id", "maszyna_ns"}

\* What a step leaves of the store other than the repairs.
ResztaBezZmian == klienci' = klienci /\ maszyny' = maszyny /\ nast_id' = nast_id

\* C6: a PUT /naprawy/{id} answered 200 sets, in the one repair with that
\* id, the recognized fields of the body to the values sent, and changes no
\* other field of it, no other repair, no client and no machine.
C6_UpdateChangesExactlySentFields ==
    [][ (Ukonczono /\ odp'.op = "PUT /naprawy" /\ odp'.kod = 200)
          => LET d == odp'.dane
                 stary == {n \in naprawy : n.id = odp'.id}
                 nowy == {n \in naprawy' : n.id = odp'.id}
             IN  /\ Cardinality(stary) = 1 /\ Cardinality(nowy) = 1
                 /\ naprawy' \ nowy = naprawy \ stary
                 /\ \A n \in stary, m \in nowy : \A f \in DOMAIN n :
                      m[f] = IF f \in Rozpoznane /\ d[f] # ABSENT THEN d[f] ELSE n[f]
                 /\ ResztaBezZmian ]_vars

\* C6 witness: a body holding only rozliczone was answered 200 on a repair
\* that keeps the status, client, machine and intermediary it was created
\* with, while another repair exists.
C6_Witness ==
    /\ odp.op = "PUT /naprawy" /\ odp.kod = 200
    /\ \A f \in Rozpoznane : (odp.dane[f] # ABSENT) <=> (f = "rozliczone")
    /\ \E n, o \in naprawy :
         /\ n.id = odp.id /\ o.id # n.id
         /\ n.rozliczone = PRAWDA /\ n.status = "open" /\ n.klient_id = "K1"
         /\ n.maszyna_ns = "SN-1" /\ n.posrednik_id = NULL

\* C7: a PUT /naprawy/{id} whose body holds no recognized field is answered
\* 400 before any store call, and the store is as it was.
C7_EmptyUpdateRejectedBeforeStore ==
    [][ (Ukonczono /\ odp'.op = "PUT /naprawy"
         /\ \A f \in Rozpoznane : odp'.dane[f] = ABSENT)
          => (odp'.kod = 400 /\ odp'.calls = 0
              /\ naprawy' = naprawy /\ ResztaBezZmian) ]_vars

\* C7 witness: a body holding only an unknown key was answered 400 for the id
\* of an existing repair.
C7_Witness ==
    /\ odp.op = "PUT /naprawy" /\ odp.kod = 400
    /\ odp.dane.data_przyjecia # ABSENT
    /\ \E n \in naprawy : n.id = odp.id

\* C8: DELETE /naprawy/{id}, and PUT /naprawy/{id} with a recognized field,
\* for an id that no repair has are answered 404 and leave the store as it
\* was; they answer 200 only when a row with that id was deleted or updated.
C8_MissingIdIsNotFound ==
    [][ (Ukonczono /\ odp'.op \in {"DELETE /naprawy", "PUT /naprawy"})
          => LET byl == \E n \in naprawy : n.id = odp'.id
                 jest == \E n \in naprawy' : n.id = odp'.id
                 pola == IF odp'.op = "PUT /naprawy"
                         THEN {f \in Rozpoznane : odp'.dane[f] # ABSENT}
                         ELSE {}
             IN  /\ (~byl /\ (odp'.op = "DELETE /naprawy" \/ pola # {}))
                      => (odp'.kod = 404 /\ naprawy' = naprawy /\ ResztaBezZmian)
                 /\ odp'.kod = 200
                      => /\ byl
                         /\ odp'.op = "DELETE /naprawy" => ~jest
                         /\ odp'.op = "PUT /naprawy"
                              => \E n \in naprawy' :
                                   n.id = odp'.id /\ \A f \in pola : n[f] = odp'.dane[f]
    ]_vars

\* C8 witness: a DELETE was answered 404 while other repairs exist.
C8_Witness ==
    /\ odp.op = "DELETE /naprawy" /\ odp.kod = 404
    /\ naprawy # {} /\ \A n \in naprawy : n.id # odp.id

\* A required field of POST /naprawy that is missing or empty.
BrakPola(d, f) == d[f] \in {ABSENT, NULL, ""}

Wymagane == {"klient_id", "maszyna_ns", "data_przyjecia", "status"}

Opcjonalne == {"data_zakonczenia", "opis_usterki", "opis_naprawy", "posrednik_id"}

\* The step added exactly one repair, with a new id, the required and the
\* optional fields as sent (NULL when not sent), rozliczone false when not
\* sent, and answered with its id.
DodanoJedna(d) ==
    /\ odp'.kod = 200
    /\ naprawy \subseteq naprawy'
    /\ Cardinality(naprawy' \ naprawy) = 1
    /\ \A n \in naprawy' \ naprawy :
         /\ n.id = odp'.tresc.id
         /\ \A o \in naprawy : o.id # n.id
         /\ \A f \in Wymagane : n[f] = d[f]
         /\ \A f \in Opcjonalne : n[f] = IF d[f] = ABSENT THEN NULL ELSE d[f]
         /\ n.rozliczone = IF d.rozliczone = ABSENT THEN FALSZ ELSE d.rozliczone

\* C9 as stated: POST /naprawy with a required field missing or empty is
\* answered 400 and adds no repair; with all four present and non-empty it
\* inserts exactly one repair and returns its id.
C9_CreateValidatesThenInserts ==
    [][ (Ukonczono /\ odp'.op = "POST /naprawy")
          => IF \E f \in Wymagane : BrakPola(odp'.dane, f)
             THEN odp'.kod = 400 /\ naprawy' = naprawy
             ELSE DodanoJedna(odp'.dane) ]_vars

\* C9 amended: as C9, the insert being made when klient_id and maszyna_ns
\* name a client row and a machine row; when one names no row the store
\* rejects the insert, the answer is 500 and no repair is added.
C9_CreateInsertsWhenReferencesExist ==
    [][ (Ukonczono /\ odp'.op = "POST /naprawy")
          => LET d == odp'.dane
             IN  IF \E f \in Wymagane : BrakPola(d, f)
                 THEN odp'.kod = 400 /\ naprawy' = naprawy
                 ELSE IF /\ \E k \in klienci : k.klient_id = d.klient_id
                         /\ \E m \in maszyny : m.ns = d.maszyna_ns
                 THEN DodanoJedna(d)
                 ELSE odp'.kod = 500 /\ naprawy' = naprawy ]_vars

\* C9 witness: a create that sent no optional field was answered 200 with the
\* id of a row holding rozliczone = false.
C9_Witness ==
    /\ odp.op = "POST /naprawy" /\ odp.kod = 200
    /\ odp.dane.rozliczone = ABSENT
    /\ \E n \in naprawy : n.id = odp.tresc.id /\ n.rozliczone = FALSZ

\* The characters of the brand names and filter values in use.
Znaki(s) ==
    CASE s = "Acme" -> <<"A", "c", "m", "e">>
      [] s = "acme" -> <<"a", "c", "m", "e">>
      [] s = "Bosch" -> <<"B", "o", "s", "c", "h">>
      [] OTHER -> <<>>

MalaLitera(c) ==
    CASE c = "A" -> "a"
      [] c = "B" -> "b"
      [] OTHER -> c

Male(t) == [i \in 1..Len(t) |-> MalaLitera(t[i])]

\* marka ILIKE %b%: b occurs in marka, letter case aside; never for NULL.
ZawieraBezWielkosci(marka, b) ==
    /\ marka # NULL
    /\ LET t == Male(Znaki(marka))
           w == Male(Znaki(b))
       IN  \E i \in 0..(Len(t) - Len(w)) : SubSeq(t, i + 1, i + Len(w)) = w

\* The marka of the machine a repair refers to.
MarkaNaprawy(n) ==
    IF \E m \in maszyny : m.ns = n.maszyna_ns
    THEN (CHOOSE m \in maszyny : m.ns = n.maszyna_ns).marka
    ELSE NULL

\* C10: GET /naprawy with the brand filter b returns exactly the repairs
\* whose machine's marka contains b, letter case aside, and without the
\* filter all repairs.
C10_BrandFilter ==
    [][ (Ukonczono /\ odp'.op = "GET /naprawy" /\ odp'.kod = 200)
          => LET b == odp'.dane.marka
                 zwrocone == {odp'.tresc.wynik[i].id : i \in 1..Len(odp'.tresc.wynik)}
             IN  zwrocone =
                   {n.id : n \in {n \in naprawy :
                                   b = ABSENT \/ ZawieraBezWielkosci(MarkaNaprawy(n), b)}}
    ]_vars

-----------------------------------------------------------------------------
(* C11 *)

\* C11: in the end-to-end scenario from the empty store every step succeeds:
\* POST /klienci with the client id "ACME" alone is answered with success,
\* so is POST /maszyny for SN-1, and with that client and machine in the
\* store POST /naprawy referencing them is answered 201 with an integer id
\* that no repair had before.
C11_EndToEndCreates ==
    [][Ukonczono =>
         /\ (odp'.op = "POST /klienci" /\ odp'.dane = KlientACME)
              => odp'.kod \in {200, 201}
         /\ (odp'.op = "POST /maszyny" /\ odp'.dane = MaszynaSN1)
              => odp'.kod \in {200, 201}
         /\ (/\ odp'.op = "POST /naprawy" /\ odp'.dane = NaprawaACME
             /\ \E k \in klienci : k.klient_id = "ACME"
             /\ \E m \in maszyny : m.ns = "SN-1")
              => /\ odp'.kod = 201
                 /\ odp'.tresc.id \in Nat
                 /\ odp'.tresc.id \notin {n.id : n \in naprawy}
                 /\ odp'.tresc.id >= nast_id]_vars

-----------------------------------------------------------------------------
(* C12 *)

\* C12: a repair created by POST /naprawy and not updated or deleted since
\* is read back by GET /naprawy/{id}: the answer is 200 with the status and
\* rozliczone the row was created with, and with marka and klasa the machine
\* the repair references has at the time of the read; when the read is the
\* next request after the create, status is the one the create sent and
\* rozliczone is the one it sent, false when it sent none.
C12_ReadBackAfterCreate ==
    [][(Ukonczono /\ odp'.op = "GET /naprawy/id") =>
         \A n \in naprawy : n.id = odp'.id =>
            /\ odp'.kod = 200
            /\ odp'.tresc.id = n.id
            /\ odp'.tresc.status = n.status
            /\ odp'.tresc.rozliczone = n.rozliczone
            /\ \E m \in maszyny :
                 /\ m.ns = n.maszyna_ns
                 /\ odp'.tresc.marka = m.marka
                 /\ odp'.tresc.klasa = m.klasa
            /\ \E d \in DaneNaprawy :
                 /\ n.status = d.status
                 /\ n.rozliczone = IF d.rozliczone = ABSENT THEN FALSZ ELSE d.rozliczone
            /\ (odp.op = "POST /naprawy" /\ odp.kod = 200 /\ odp.tresc.id = n.id) =>
                 /\ odp'.tresc.status = odp.dane.status
                 /\ odp'.tresc.rozliczone =
                      IF odp.dane.rozliczone = ABSENT THEN FALSZ ELSE odp.dane.rozliczone]_vars

\* A repair created without rozliczone for the machine SN-1, read back after
\* the machine was re-submitted with another brand and no class.
C12_Witness ==
    /\ odp.op = "GET /naprawy/id" /\ odp.kod = 200
    /\ \E n \in naprawy :
         /\ n.id = odp.id /\ n.maszyna_ns = "SN-1"
         /\ odp.tresc.status = "open" /\ odp.tresc.rozliczone = FALSZ
         /\ odp.tresc.marka = "Bosch" /\ odp.tresc.klasa = NULL

-----------------------------------------------------------------------------
(* C13 *)

\* C13: in every reachable state of the store GET /naprawy is answered with
\* the list of all repairs: every repair row exactly once, in strictly
\* descending order of id.
C13_ListIsEveryRepairDescending ==
    [][(Ukonczono /\ odp'.op = "GET /naprawy") =>
         /\ odp'.kod = 200
         /\ LET wynik == odp'.tresc.wynik
            IN  /\ Len(wynik) = Cardinality(naprawy)
                /\ \A n \in naprawy :
                     Cardinality({i \in 1..Len(wynik) : wynik[i].id = n.id}) = 1
                /\ \A i \in 1..Len(wynik) : \A j \in 1..Len(wynik) :
                     i < j => wynik[i].id > wynik[j].id]_vars

-----------------------------------------------------------------------------
(* C14 *)

\* C14: PUT /klienci/{id} on a client that exists, with any subset of the
\* attributes that are not the key, is answered with success, gives exactly
\* the attributes sent their new values on that client, and leaves the
\* client's klient_id, its other attributes and every other client unchanged.
AtrybutyKlienta == {"nazwa", "logo", "adres", "osoba", "telefon"}

C14_PutUpdatesSentAttributes ==
    [][(/\ Ukonczono /\ odp'.op = "PUT /klienci/id"
        /\ \E f \in AtrybutyKlienta : odp'.dane[f] # ABSENT) =>
         \A k \in klienci : k.klient_id = odp'.dane.klient_id =>
            /\ odp'.kod = 200
            /\ \E k2 \in klienci' :
                 /\ k2.klient_id = k.klient_id
                 /\ \A f \in AtrybutyKlienta :
                      k2[f] = IF odp'.dane[f] # ABSENT THEN odp'.dane[f] ELSE k[f]
            /\ \A o \in klienci : o.klient_id # k.klient_id => o \in klienci'
            /\ Cardinality(klienci') = Cardinality(klienci)]_vars

-----------------------------------------------------------------------------
(* C15 *)

\* The keys of the flat record of a repair.
KluczeNaprawy ==
    {"id", "klient_id", "marka", "klasa", "ns", "status", "data_przyjecia",
     "data_zakonczenia", "opis_usterki", "opis_naprawy", "rozliczone"}

\* C15: _formatuj_naprawe returns for a raw row of every join shape (nested
\* object, single-element list, key missing, null, empty list) a record with
\* the same fixed keys, marka and klasa those of the nested machine when
\* there is one and the default when there is none; and GET /naprawy is never
\* answered 500.
C15_FormatIsTotalOnJoinShapes ==
    [][Ukonczono =>
         /\ odp'.op = "_formatuj_naprawe" =>
              /\ odp'.kod = 200
              /\ DOMAIN odp'.tresc = KluczeNaprawy
              /\ odp'.dane.ksztalt \in {"object", "list1"} =>
                   \E m \in maszyny : /\ m.ns = odp'.dane.ns
                                      /\ odp'.tresc.marka = m.marka
                                      /\ odp'.tresc.klasa = m.klasa
              /\ odp'.dane.ksztalt \in {"missing", "null", "list0"} =>
                   odp'.tresc.marka = NULL /\ odp'.tresc.klasa = NULL
         /\ odp'.op = "GET /naprawy" => odp'.kod # 500]_vars

-----------------------------------------------------------------------------
(* C16 *)

\* C16: the intermediary id a POST /naprawy or PUT /naprawy/{id} stored on a
\* repair is read back: the record GET /naprawy/{id} returns for the repair,
\* and the repair's record in the list GET /naprawy returns, hold the key
\* posrednik_id with the value the row has.
C16_IntermediaryIdIsReadBack ==
    [][(Ukonczono /\ odp'.kod = 200) =>
         /\ odp'.op = "GET /naprawy/id" =>
              \A n \in naprawy : (n.id = odp'.id /\ n.posrednik_id # NULL) =>
                 /\ "posrednik_id" \in DOMAIN odp'.tresc
                 /\ odp'.tresc.posrednik_id = n.posrednik_id
         /\ odp'.op = "GET /naprawy" =>
              \A n \in naprawy : n.posrednik_id # NULL =>
                \E i \in 1..Len(odp'.tresc.wynik) :
                 /\ odp'.tresc.wynik[i].id = n.id
                 /\ "posrednik_id" \in DOMAIN odp'.tresc.wynik[i]
                 /\ odp'.tresc.wynik[i].posrednik_id = n.posrednik_id]_vars

-----------------------------------------------------------------------------
(* C17 *)

\* No step removes a client row or a machine row.
BezUsuwania ==
    /\ \A k \in klienci : \E k2 \in klienci' : k2.klient_id = k.klient_id
    /\ \A m \in maszyny : \E m2 \in maszyny' : m2.ns = m.ns

-----------------------------------------------------------------------------
(* C18 *)

\* C18: a POST /klienci whose lookup (by klient_id, else logo, else nazwa)
\* finds a client changes nothing in the store: the client rows, with every
\* attribute of the found client, are what they were, whatever attributes the
\* request carries, and no row is added; the answer is 200 with the klient_id
\* of a row that has the request's identifying value.  (The step is the one
\* that answers after the lookup, the handler's first store call.)
C18_FoundClientLeavesStoreUnchanged ==
    [][(/\ Ukonczono /\ odp'.op = "POST /klienci" /\ odp'.calls = 1
        /\ KluczKlienta(odp'.dane)[1] # NULL
        /\ \E k \in klienci : k[KluczKlienta(odp'.dane)[1]] = KluczKlienta(odp'.dane)[2]) =>
         /\ klienci' = klienci
         /\ maszyny' = maszyny /\ naprawy' = naprawy
         /\ odp'.kod = 200
         /\ \E k \in klienci' :
              /\ k.klient_id = odp'.tresc.klient_id
              /\ k[KluczKlienta(odp'.dane)[1]] = KluczKlienta(odp'.dane)[2]]_vars

\* A request with nazwa Beta and adres A1 found, by its logo AC, the client
\* that has no nazwa and the adres A2; the client still has neither.
C18_Witness ==
    /\ odp.op = "POST /klienci" /\ odp.kod = 200 /\ odp.calls = 1
    /\ odp.dane.nazwa = "Beta" /\ odp.dane.adres = "A1"
    /\ \E k \in klienci :
         /\ k.klient_id = odp.tresc.klient_id
         /\ k.logo = "AC" /\ k.nazwa = NULL /\ k.adres = "A2"

-----------------------------------------------------------------------------
(* C19 *)

\* C19: POST /maszyny for a serial number that a machine row has writes
\* marka, klasa and opis only when the request sent them: an attribute the
\* request omits has, after the request, the value the row had before.
C19_UpsertKeepsOmittedAttributes ==
    [][(/\ Ukonczono /\ odp'.op = "POST /maszyny" /\ odp'.kod = 200
        /\ odp'.existing # NULL) =>
         \A m \in maszyny : m.ns = odp'.dane.ns =>
            \E m2 \in maszyny' :
               /\ m2.ns = m.ns
               /\ \A f \in {"marka", "klasa", "opis"} :
                    odp'.dane[f] = ABSENT => m2[f] = m[f]]_vars

=============================================================================
